---- MODULE Spec2Model ----
(***************************************************************************)
(* Model of app.py: a Streamlit dashboard that memoizes one database       *)
(* connection (st.cache_resource), loads four tables through memoized      *)
(* loaders (st.cache_data), optionally introspects four tables, and        *)
(* aggregates the ambulatory table by region, state and year.              *)
(*                                                                         *)
(* Conventions.  Text keys (regiao_nome, uf_sigla) are encoded as positive *)
(* integers in their collation order; NULL is a missing value (SQL NULL,   *)
(* pandas NaN/None).  Money (vl_total) is stored as a decimal counted in   *)
(* thousandths; the float64 column read from it holds the double nearest   *)
(* to each amount, and sums, quotients and roundings are computed on       *)
(* doubles.  A value rounded to two places is given in thousandths again,  *)
(* and a ratio is a record [kind, v], kind "num", "inf" or "nan".  The     *)
(* population, municipality and economic tables are used by main() only    *)
(* through their row counts and are modelled by row counts.                *)
(***************************************************************************)
EXTENDS Integers, Sequences, FiniteSets

VARIABLES
    db,                 \* content of the four database tables
    resource_cache,     \* st.cache_resource entry of init_connection
    connect_calls,      \* number of engine.connect() attempts made
    session_engine,     \* st.session_state.engine of each browser session
    data_cache,         \* st.cache_data entries of the five cached functions
    queries,            \* SQL queries each loader issued in the current run
    loads,              \* number of runs of main() started
    cur,                \* session of the latest run of main()
    pc,                 \* position of the run inside main()
    calls,              \* loaders invoked by the current run, in order
    raised,             \* function whose exception left main(), or "none"
    rendered,           \* elements the current run has put on the page
    structure,          \* result of explore_database_structure in this run
    explore_ok,         \* which per-table queries succeeded when it last ran
    explore_i,          \* position of the loop of explore_database_structure
    df_ambulatorial, df_populacao, df_municipio, df_economico,
    fig_invest,         \* by-region aggregate as grouped (lines 191-201)
    investimento_regiao,\* by-region table as displayed (lines 229-233)
    dados_uf, top_estados, evolucao_anual

vars == <<db, resource_cache, connect_calls, session_engine, data_cache,
          queries, loads, cur, pc, calls, raised, rendered, structure,
          explore_ok, explore_i, df_ambulatorial, df_populacao, df_municipio,
          df_economico,
          fig_invest, investimento_regiao, dados_uf, top_estados,
          evolucao_anual>>

cycle_locals == <<df_ambulatorial, df_populacao, df_municipio, df_economico,
                  fig_invest, investimento_regiao, dados_uf, top_estados,
                  evolucao_anual>>

aggregates == <<fig_invest, investimento_regiao, dados_uf, top_estados,
                evolucao_anual>>

(***************************************************************************)
(* Program constants and bounds                                            *)
(***************************************************************************)
YearMin == 2020
LimitPopulation == 100000
LimitEconomic == 50000
LimitMunicipio == 5000
TopN == 10

NSessions == 2
MaxLoads == 2
MaxRows == 3
MaxStates == 11
MaxTied == 4

NULL == 0
NoLimit == -1

Min(a, b) == IF a <= b THEN a ELSE b

(***************************************************************************)
(* pandas helpers                                                          *)
(***************************************************************************)
RECURSIVE SortedSeq(_)
\* The elements of a finite set of integers in ascending order
\* (groupby sorts the group keys).
SortedSeq(S) ==
    IF S = {} THEN <<>>
    ELSE LET m == CHOOSE x \in S : \A y \in S : x <= y
         IN  <<m>> \o SortedSeq(S \ {m})

RECURSIVE SumSeq(_)
SumSeq(s) == IF s = <<>> THEN 0 ELSE Head(s) + SumSeq(Tail(s))

\* The rows of df whose column col equals k.
RowsOf(df, col, k) == SelectSeq(df, LAMBDA r : r[col] = k)

\* The sum of an int64 column (qtd_total).
SumCol(df, col) == SumSeq([i \in 1..Len(df) |-> df[i][col]])

\* Series.nunique(): distinct values, missing values not counted.
NUnique(df, col) == Cardinality({df[i][col] : i \in 1..Len(df)} \ {NULL})

\* The group keys of df.groupby(col): rows whose key is missing form no group
\* (dropna=True is the default).
GroupKeys(df, col) == {df[i][col] : i \in 1..Len(df)} \ {NULL}

(***************************************************************************)
(* Natural numbers of any size, as little-endian sequences of limbs below  *)
(* Base with no zero limb at the top (zero is the empty sequence): the     *)
(* 53-bit significands of float64 and the exact intermediate results of    *)
(* its operations do not fit a machine integer of the checker.             *)
(***************************************************************************)
LimbBits == 13
Base == 8192
Precision == 53

RECURSIVE Pow2(_)
Pow2(k) == IF k = 0 THEN 1 ELSE 2 * Pow2(k - 1)

RECURSIVE Trim(_)
Trim(a) ==
    IF a # <<>> /\ a[Len(a)] = 0 THEN Trim(SubSeq(a, 1, Len(a) - 1)) ELSE a

RECURSIVE FromNat(_)
FromNat(k) == IF k = 0 THEN <<>> ELSE <<k % Base>> \o FromNat(k \div Base)

RECURSIVE ToNat(_)
ToNat(a) == IF a = <<>> THEN 0 ELSE Head(a) + Base * ToNat(Tail(a))

Limb(a, i) == IF i <= Len(a) THEN a[i] ELSE 0

RECURSIVE AddFrom(_, _, _, _)
AddFrom(a, b, i, carry) ==
    IF i > Len(a) /\ i > Len(b)
    THEN (IF carry = 0 THEN <<>> ELSE <<carry>>)
    ELSE LET t == Limb(a, i) + Limb(b, i) + carry
         IN  <<t % Base>> \o AddFrom(a, b, i + 1, t \div Base)

AddNat(a, b) == AddFrom(a, b, 1, 0)

RECURSIVE SubFrom(_, _, _, _)
SubFrom(a, b, i, borrow) ==
    IF i > Len(a) THEN <<>>
    ELSE LET t == Base + Limb(a, i) - Limb(b, i) - borrow
         IN  <<t % Base>> \o SubFrom(a, b, i + 1, IF t < Base THEN 1 ELSE 0)

\* a - b for a >= b.
SubNat(a, b) == Trim(SubFrom(a, b, 1, 0))

RECURSIVE CmpFrom(_, _, _)
CmpFrom(a, b, i) ==
    IF i = 0 THEN 0
    ELSE IF a[i] > b[i] THEN 1
    ELSE IF a[i] < b[i] THEN -1
    ELSE CmpFrom(a, b, i - 1)

\* -1, 0 or 1 as a is below, equal to or above b.
CmpNat(a, b) ==
    IF Len(a) > Len(b) THEN 1
    ELSE IF Len(a) < Len(b) THEN -1
    ELSE CmpFrom(a, b, Len(a))

RECURSIVE MulFrom(_, _, _, _)
MulFrom(a, c, i, carry) ==
    IF i > Len(a) THEN FromNat(carry)
    ELSE LET t == a[i] * c + carry
         IN  <<t % Base>> \o MulFrom(a, c, i + 1, t \div Base)

\* a * c for a machine integer 0 < c < 2^18.
MulSmall(a, c) == MulFrom(a, c, 1, 0)

RECURSIVE DivFrom(_, _, _, _)
DivFrom(a, d, i, rem) ==
    IF i = 0 THEN [q |-> <<>>, r |-> rem]
    ELSE LET t == rem * Base + a[i]
             rest == DivFrom(a, d, i - 1, t % d)
         IN  [q |-> Append(rest.q, t \div d), r |-> rest.r]

TrimQuotient(x) == [q |-> Trim(x.q), r |-> x.r]

\* Quotient and remainder of a by a machine integer 0 < d < 2^18.
DivSmall(a, d) == TrimQuotient(DivFrom(a, d, Len(a), 0))

\* a * 2^k.
ShiftLeft(a, k) ==
    IF a = <<>> THEN <<>>
    ELSE [i \in 1..(k \div LimbBits) |-> 0] \o MulSmall(a, Pow2(k % LimbBits))

\* The quotient dv, and whether dv's remainder or the limbs low are nonzero.
WithSticky(dv, low) ==
    [q |-> dv.q, sticky |-> dv.r # 0 \/ \E i \in 1..Len(low) : low[i] # 0]

\* floor(a / 2^k), and whether a nonzero remainder was dropped.
ShiftRight(a, k) ==
    IF k \div LimbBits >= Len(a) THEN [q |-> <<>>, sticky |-> a # <<>>]
    ELSE WithSticky(DivSmall(SubSeq(a, k \div LimbBits + 1, Len(a)),
                             Pow2(k % LimbBits)),
                    SubSeq(a, 1, k \div LimbBits))

RECURSIVE Width(_)
Width(n) == IF n = 0 THEN 0 ELSE 1 + Width(n \div 2)

\* Number of bits of a.
BitLen(a) ==
    IF a = <<>> THEN 0 ELSE LimbBits * (Len(a) - 1) + Width(a[Len(a)])

Odd(a) == Limb(a, 1) % 2 = 1

\* dv.q + dv.r / 2 + f rounded to the nearest integer, ties to even, where
\* dv.r is 0 or 1, 0 <= f < 1/2 and sticky tells whether f > 0.
HalfToEven(dv, sticky) ==
    IF dv.r = 1 /\ (sticky \/ Odd(dv.q)) THEN AddNat(dv.q, <<1>>) ELSE dv.q

RoundHalf(h, sticky) == HalfToEven(DivSmall(h.q, 2), h.sticky \/ sticky)

\* (a + f) / 2^k for k >= 1 rounded to the nearest integer, ties to even,
\* where 0 <= f < 1 and sticky tells whether f > 0.
RoundShift(a, sticky, k) == RoundHalf(ShiftRight(a, k - 1), sticky)

(***************************************************************************)
(* float64 (IEEE 754 binary64, round to nearest, ties to even).  A finite  *)
(* double is [neg, sig, exp], its value (-1)^neg * sig * 2^exp with        *)
(* 2^52 <= sig < 2^53; zero is Zero (the sign of zero is not kept).        *)
(* Subnormal and overflowing values are out of the range of the amounts.   *)
(***************************************************************************)
Zero == [neg |-> FALSE, sig |-> <<>>, exp |-> 0]

\* The double of significand m, which rounding up may have carried to
\* Precision + 1 bits (a power of two then).
Carried(neg, m, exp) ==
    IF BitLen(m) > Precision
    THEN [neg |-> neg, sig |-> ShiftRight(m, 1).q, exp |-> exp + 1]
    ELSE [neg |-> neg, sig |-> m, exp |-> exp]

\* Double for n of len > 0 bits.
DoubleOfLen(neg, n, sticky, exp, len) ==
    IF len <= Precision
    THEN [neg |-> neg, sig |-> ShiftLeft(n, Precision - len),
          exp |-> exp - (Precision - len)]
    ELSE Carried(neg, RoundShift(n, sticky, len - Precision),
                 exp + (len - Precision))

\* The double nearest to (-1)^neg * (n + f) * 2^exp, where 0 <= f < 1 and
\* sticky tells whether f > 0 (n has more than Precision bits when it does).
Double(neg, n, sticky, exp) ==
    IF n = <<>> THEN Zero ELSE DoubleOfLen(neg, n, sticky, exp, BitLen(n))

\* The double nearest to the quotient whose integer part is dv.q, with a
\* fraction left when dv.r > 0, times 2^exp.
Quotient(neg, dv, exp) == Double(neg, dv.q, dv.r # 0, exp)

\* float(p) / float(q) for integers 0 <= p < 2^31 and 0 < q < 2^18, which
\* is also the double a decimal literal p/q (q a power of ten) reads as:
\* p * 2^k / q has Precision + 1 bits or more.
Float64Scaled(p, q, k) ==
    Quotient(FALSE, DivSmall(ShiftLeft(FromNat(p), k), q), 0 - k)

Float64(p, q) ==
    IF p = 0 THEN Zero
    ELSE Float64Scaled(p, q, Precision + 2 + Width(q) - Width(p))

Negate(x) == IF x = Zero THEN Zero ELSE [x EXCEPT !.neg = ~x.neg]

\* Sign and magnitude of (-1)^hi.neg * a + (-1)^lo.neg * lo.sig, where c
\* compares a with lo.sig.
SignedSum(hi, lo, a, c) ==
    IF hi.neg = lo.neg THEN [neg |-> hi.neg, n |-> AddNat(a, lo.sig)]
    ELSE IF c = 0 THEN [neg |-> FALSE, n |-> <<>>]
    ELSE IF c > 0 THEN [neg |-> hi.neg, n |-> SubNat(a, lo.sig)]
    ELSE [neg |-> lo.neg, n |-> SubNat(lo.sig, a)]

Aligned(hi, lo, a) == SignedSum(hi, lo, a, CmpNat(a, lo.sig))

Exact(s, exp) == Double(s.neg, s.n, FALSE, exp)

\* hi + lo for nonzero doubles with hi.exp >= lo.exp: the exact sum of the
\* significands aligned at lo.exp, rounded once.
AddOrdered(hi, lo) ==
    IF hi.exp - lo.exp > 64 THEN hi
    ELSE Exact(Aligned(hi, lo, ShiftLeft(hi.sig, hi.exp - lo.exp)), lo.exp)

\* x + y.
AddFloat(x, y) ==
    IF x = Zero THEN y
    ELSE IF y = Zero THEN x
    ELSE AddOrdered(IF x.exp >= y.exp THEN x ELSE y,
                    IF x.exp >= y.exp THEN y ELSE x)

\* x - y.
SubFloat(x, y) == AddFloat(x, Negate(y))

\* x * float(c) for an integer 0 < c < 2^18.
MulFloat(x, c) ==
    IF x = Zero THEN Zero ELSE Double(x.neg, MulSmall(x.sig, c), FALSE, x.exp)

\* x / float(d) for an integer 0 < d < 2^18.
DivFloat(x, d) ==
    IF x = Zero THEN Zero
    ELSE Quotient(x.neg, DivSmall(ShiftLeft(x.sig, 2 * LimbBits), d),
                  x.exp - 2 * LimbBits)

Signed(neg, n) == IF neg THEN 0 - n ELSE n

\* rint(x) as an integer (|x| < 2^31): the nearest integer, ties to even.
Rint(x) ==
    Signed(x.neg,
           IF x = Zero THEN 0
           ELSE IF x.exp >= 0 THEN ToNat(ShiftLeft(x.sig, x.exp))
           ELSE IF 0 - x.exp > Precision + 1 THEN 0
           ELSE ToNat(RoundShift(x.sig, FALSE, 0 - x.exp)))

\* |x| < |y|.
LessMagnitude(x, y) ==
    IF x = Zero THEN y # Zero
    ELSE IF y = Zero THEN FALSE
    ELSE IF x.exp # y.exp THEN x.exp < y.exp
    ELSE CmpNat(x.sig, y.sig) < 0

\* x < y.
LessFloat(x, y) ==
    IF x.neg /\ ~y.neg THEN TRUE
    ELSE IF ~x.neg /\ y.neg THEN FALSE
    ELSE IF x.neg THEN LessMagnitude(y, x)
    ELSE LessMagnitude(x, y)

\* The sum and the compensation after adding y (the next value less the
\* compensation so far) to sumx, which gave t.
Compensated(sumx, y, t) ==
    [sumx |-> t, compensation |-> SubFloat(SubFloat(t, sumx), y)]

KahanAdd(sumx, y) == Compensated(sumx, y, AddFloat(sumx, y))

\* One step of Kahan's summation: y = val - compensation; t = sumx + y;
\* compensation = (t - sumx) - y; sumx = t.
KahanStep(s, val) == KahanAdd(s.sumx, SubFloat(val, s.compensation))

RECURSIVE KahanFrom(_, _, _)
KahanFrom(vals, i, s) ==
    IF i > Len(vals) THEN s.sumx
    ELSE KahanFrom(vals, i + 1, KahanStep(s, vals[i]))

\* The 'sum' of a float64 column within one group: groupby sums the rows in
\* order with Kahan's compensation.
GroupSum(vals) == KahanFrom(vals, 1, [sumx |-> Zero, compensation |-> Zero])

\* The float64 column vl_total of df.
Amounts(df) == [i \in 1..Len(df) |-> df[i].vl_total]

\* The row of the aggregate for the group g of key k.
SummaryRow(k, g) ==
    [key |-> k,
     investimento_total |-> GroupSum(Amounts(g)),
     procedimentos_total |-> SumCol(g, "qtd_total"),
     municipios |-> NUnique(g, "codigo_municipio")]

SummaryRows(df, col, keys) ==
    [i \in 1..Len(keys) |-> SummaryRow(keys[i], RowsOf(df, col, keys[i]))]

\* df.groupby(col).agg({'vl_total': 'sum', 'qtd_total': 'sum',
\* 'codigo_municipio': 'nunique'}).reset_index().rename(...)
GroupSummary(df, col) == SummaryRows(df, col, SortedSeq(GroupKeys(df, col)))

YearRow(k, g) ==
    [key |-> k,
     vl_total |-> GroupSum(Amounts(g)),
     qtd_total |-> SumCol(g, "qtd_total")]

YearRows(df, keys) ==
    [i \in 1..Len(keys) |->
        YearRow(keys[i], RowsOf(df, "ano_producao_ambulatorial", keys[i]))]

\* df.groupby('ano_producao_ambulatorial').agg({'vl_total': 'sum',
\* 'qtd_total': 'sum'}).reset_index()
YearSummary(df) ==
    YearRows(df, SortedSeq(GroupKeys(df, "ano_producao_ambulatorial")))

\* Series.round(2) is rint(x * 100) / 100, each step rounded to a double.
\* The result is given in thousandths: rint yields an integer n and n / 100
\* is the double nearest to n hundredths.
Round2(x) == 10 * Rint(MulFloat(x, 100))

\* A float64 quotient by zero: no exception, x/0 is inf and 0/0 is NaN.
DivByZero(a) ==
    IF a = 0 THEN [kind |-> "nan", v |-> 0] ELSE [kind |-> "inf", v |-> 0]

\* Line 230: (investimento_total / municipios).round(2), investimento_total
\* being the total already rounded to cents (t thousandths, a multiple of 10).
InvestimentoPorMunicipio(t, b) ==
    IF b = 0 THEN DivByZero(t)
    ELSE [kind |-> "num", v |-> Round2(DivFloat(Float64(t \div 10, 100), b))]

\* Line 231: (procedimentos_total / municipios).round(2) of an integer count,
\* in thousandths.
ProcedimentosPorMunicipio(a, b) ==
    IF b = 0 THEN DivByZero(a)
    ELSE [kind |-> "num", v |-> Round2(Float64(a, b))]

\* The row r of the aggregate with its total rounded to t and the ratios.
RatioRow(r, t) ==
    [key |-> r.key,
     investimento_total |-> t,
     procedimentos_total |-> r.procedimentos_total,
     municipios |-> r.municipios,
     investimento_por_municipio |-> InvestimentoPorMunicipio(t, r.municipios),
     procedimentos_por_municipio |->
         ProcedimentosPorMunicipio(r.procedimentos_total, r.municipios)]

\* Lines 229-231: round the total, add the two per-municipality ratios.
WithRatios(frame) ==
    [i \in 1..Len(frame) |->
        RatioRow(frame[i], Round2(frame[i].investimento_total))]

RECURSIVE InsertDesc(_, _, _)
\* Insert index i into the list of indices s, ordered by descending vals,
\* behind every index of equal value (a stable sort, as mergesort is).
InsertDesc(s, i, vals) ==
    IF s = <<>> THEN <<i>>
    ELSE IF ~LessFloat(vals[Head(s)], vals[i])
         THEN <<Head(s)>> \o InsertDesc(Tail(s), i, vals)
         ELSE <<i>> \o s

RECURSIVE StableArgsortDesc(_, _)
\* The indices idx (ascending) stably sorted by descending vals.
StableArgsortDesc(idx, vals) ==
    IF idx = <<>> THEN <<>>
    ELSE InsertDesc(StableArgsortDesc(SubSeq(idx, 1, Len(idx) - 1), vals),
                    idx[Len(idx)], vals)

\* The n-th largest of vals, counted with multiplicity (1 <= n <= Len(vals)).
KthLargest(vals, n) ==
    CHOOSE v \in {vals[i] : i \in 1..Len(vals)} :
        /\ Cardinality({i \in 1..Len(vals) : LessFloat(v, vals[i])}) < n
        /\ Cardinality({i \in 1..Len(vals) : ~LessFloat(vals[i], v)}) >= n

SelectNFastUnstable(n, frame) ==
    LET vals == [i \in 1..Len(frame) |-> frame[i].investimento_total]
        kth == KthLargest(vals, n)
        above == SelectSeq([i \in 1..Len(frame) |-> i],
                           LAMBDA i : LessFloat(kth, vals[i]))
        ties == SelectSeq([i \in 1..Len(frame) |-> i],
                          LAMBDA i : vals[i] = kth)
        m == n - Len(above)
        inds == StableArgsortDesc(above, vals)
                \o SubSeq(ties, Len(ties) - m + 1, Len(ties))
    IN  [j \in 1..n |-> frame[inds[j]]]

\* The fast method of nlargest (0 < n < Len(frame)), keep='first': the rows
\* whose value reaches the n-th largest one, sorted by descending value with
\* a mergesort (stable), cut to n.
SelectNFast(n, frame) ==
    LET vals == [i \in 1..Len(frame) |-> frame[i].investimento_total]
        kth == KthLargest(vals, n)
        ns == SelectSeq([i \in 1..Len(frame) |-> i],
                        LAMBDA i : ~LessFloat(vals[i], kth))
        inds == SubSeq(StableArgsortDesc(ns, vals), 1, n)
    IN  [j \in 1..n |-> frame[inds[j]]]

RECURSIVE SortedDescending(_, _)
\* sort_values(ascending=False) with the default kind, quicksort: the orders
\* the indices S can come out in.  The sort is not stable, so equal values
\* can come out in any order.
SortedDescending(S, vals) ==
    IF S = {} THEN {<<>>}
    ELSE LET top == {i \in S : \A j \in S : ~LessFloat(vals[i], vals[j])}
         IN  UNION {{<<i>> \o rest : rest \in SortedDescending(S \ {i}, vals)}
                    : i \in top}

\* The frames frame.nlargest(n, 'investimento_total') can return: with
\* n >= Len(frame) pandas sorts the whole column (sort_values(...).head(n)),
\* otherwise it takes the fast method.
NLargest(n, frame) ==
    LET vals == [i \in 1..Len(frame) |-> frame[i].investimento_total]
    IN  IF n <= 0 THEN {<<>>}
        ELSE IF n >= Len(frame)
        THEN {[j \in 1..Len(frame) |-> frame[inds[j]]] :
                 inds \in SortedDescending(1..Len(frame), vals)}
        ELSE {SelectNFast(n, frame)}

(***************************************************************************)
(* The database (environment)                                              *)
(***************************************************************************)
Tables == <<"municipio", "sus_procedimento_ambulatorial", "pib_municipios",
            "Censo_20222_Populacao_Idade_Sexo">>

TableSet == {Tables[i] : i \in 1..Len(Tables)}

TableColumns ==
    [t \in TableSet |->
        CASE t = "municipio" -> <<"codigo_municipio_dv", "nome_municipio">>
          [] t = "sus_procedimento_ambulatorial" -> <<"regiao_nome", "vl_total">>
          [] t = "pib_municipios" -> <<"ano_pib", "vl_pib">>
          [] OTHER -> <<"ANO", "TOTAL">>]

\* A row of sus_procedimento_ambulatorial, under the aliases of the query.
AmbRow(cod, reg, uf, ano, qtd, vl) ==
    [codigo_municipio |-> cod, regiao_nome |-> reg, uf_sigla |-> uf,
     ano_producao_ambulatorial |-> ano, qtd_total |-> qtd, vl_total |-> vl]

\* Contents the database takes in the load-cycle specification.  A count
\* table is [rows |-> number of rows, recent |-> rows of year >= YearMin].
Snapshots ==
    << [amb |-> << AmbRow(3, 2, 21, 2018, 1, 1000) >>,
        pop |-> [rows |-> 0, recent |-> 0],
        eco |-> [rows |-> 9, recent |-> 4],
        mun |-> [rows |-> 0, recent |-> 0]],
       [amb |-> << AmbRow(1, 1, 11, 2019, 7, 9000),
                   AmbRow(1, 1, 11, 2020, 10, 100125),
                   AmbRow(2, 2, 21, 2021, 5, 50000),
                   AmbRow(NULL, NULL, 21, 2021, 3, 2500) >>,
        pop |-> [rows |-> LimitPopulation + 1, recent |-> 0],
        eco |-> [rows |-> LimitEconomic + 10, recent |-> LimitEconomic + 1],
        mun |-> [rows |-> LimitMunicipio + 1, recent |-> 0]] >>

SnapshotSet == {Snapshots[i] : i \in 1..Len(Snapshots)}

(***************************************************************************)
(* The SQL text of the four loaders                                        *)
(***************************************************************************)
Loaders == <<"load_ambulatory_data", "load_population_data",
             "load_municipio_data", "load_economic_data">>

LoaderSet == {Loaders[i] : i \in 1..Len(Loaders)}

QueryEconomicUnfiltered ==
    [f \in LoaderSet |->
        CASE f = "load_ambulatory_data" -> [where_year |-> TRUE, limit |-> NoLimit]
          [] f = "load_population_data" -> [where_year |-> FALSE, limit |-> LimitPopulation]
          [] f = "load_economic_data" -> [where_year |-> FALSE, limit |-> LimitEconomic]
          [] OTHER -> [where_year |-> FALSE, limit |-> LimitMunicipio]]

\* WHERE <year> >= '2020' and LIMIT of each query (lines 39, 53, 67-68, 84).
Query ==
    [f \in LoaderSet |->
        CASE f = "load_ambulatory_data" -> [where_year |-> TRUE, limit |-> NoLimit]
          [] f = "load_population_data" -> [where_year |-> FALSE, limit |-> LimitPopulation]
          [] f = "load_economic_data" -> [where_year |-> TRUE, limit |-> LimitEconomic]
          [] OTHER -> [where_year |-> FALSE, limit |-> LimitMunicipio]]

\* Rows a query returns from a table given as a sequence of rows.
RunQuery(q, table) ==
    LET kept == IF q.where_year
                THEN SelectSeq(table,
                        LAMBDA r : r.ano_producao_ambulatorial >= YearMin)
                ELSE table
    IN  IF q.limit = NoLimit THEN kept
        ELSE SubSeq(kept, 1, Min(q.limit, Len(kept)))

\* Number of rows a query returns from a table given by its counts.
RunCountQuery(q, table) ==
    LET kept == IF q.where_year THEN table.recent ELSE table.rows
    IN  IF q.limit = NoLimit THEN kept ELSE Min(q.limit, kept)

\* A row as pd.read_sql returns it: the amount, a decimal of three places in
\* the database, becomes the nearest double of the float64 column.
ReadRow(r) == [r EXCEPT !.vl_total = Float64(r.vl_total, 1000)]

load_ambulatory_data(d) ==
    LET result == RunQuery(Query["load_ambulatory_data"], d.amb)
    IN  [i \in 1..Len(result) |-> ReadRow(result[i])]

load_population_data(d) == RunCountQuery(Query["load_population_data"], d.pop)

load_economic_data(d) == RunCountQuery(Query["load_economic_data"], d.eco)

load_municipio_data(d) == RunCountQuery(Query["load_municipio_data"], d.mun)

\* Whether SELECT * FROM t LIMIT 1 returns no row.
SampleEmpty(d, t) ==
    CASE t = "municipio" -> d.mun.rows = 0
      [] t = "sus_procedimento_ambulatorial" -> d.amb = <<>>
      [] t = "pib_municipios" -> d.eco.rows = 0
      [] OTHER -> d.pop.rows = 0

NoStructure == [t \in {} |-> [error |-> ""]]

ExploreIterationResetting(structure_info, table, d, ok) ==
    IF ok
    THEN [t \in DOMAIN structure_info \cup {table} |->
            IF t = table
            THEN [columns |-> TableColumns[table],
                  sample_data |-> IF SampleEmpty(d, table) THEN "None" ELSE "row"]
            ELSE structure_info[t]]
    ELSE [t \in {table} |-> [error |-> "query failed"]]

\* Lines 97-106, one pass of the loop body: the query on `table` against the
\* database d succeeds (ok) or raises, and the except clause records the
\* error under the table's own key.
ExploreIteration(structure_info, table, d, ok) ==
    LET entry == IF ok
                 THEN [columns |-> TableColumns[table],
                       sample_data |-> IF SampleEmpty(d, table)
                                       THEN "None" ELSE "row"]
                 ELSE [error |-> "query failed"]
    IN  [t \in DOMAIN structure_info \cup {table} |->
            IF t = table THEN entry ELSE structure_info[t]]

(***************************************************************************)
(* The load cycle: one run of main() at a time                             *)
(***************************************************************************)
Sessions == 1..NSessions

CachedFunctions == LoaderSet \cup {"explore_database_structure"}

Miss == [hit |-> FALSE, value |-> 0]

Init ==
    /\ db \in SnapshotSet
    /\ resource_cache = "miss"
    /\ connect_calls = 0
    /\ session_engine = [s \in Sessions |-> "unset"]
    /\ data_cache = [f \in CachedFunctions |-> Miss]
    /\ queries = [f \in LoaderSet |-> 0]
    /\ loads = 0
    /\ cur = 1
    /\ pc = "idle"
    /\ calls = <<>>
    /\ raised = "none"
    /\ rendered = {}
    /\ structure = NoStructure
    /\ explore_ok = [t \in TableSet |-> TRUE]
    /\ explore_i = 0
    /\ df_ambulatorial = <<>>
    /\ df_populacao = 0
    /\ df_municipio = 0
    /\ df_economico = 0
    /\ fig_invest = <<>>
    /\ investimento_regiao = <<>>
    /\ dados_uf = <<>>
    /\ top_estados = <<>>
    /\ evolucao_anual = <<>>

\* The database changes between two steps of the program (environment).
DbChange ==
    /\ db' \in SnapshotSet \ {db}
    /\ UNCHANGED <<resource_cache, connect_calls, session_engine, data_cache,
                   queries, loads, cur, pc, calls, raised, rendered, structure,
                   explore_ok, explore_i, cycle_locals>>

\* A page load of session s: Streamlit runs main() from its first line with
\* fresh locals and an empty page (line 111 puts the title).
StartRun(s) ==
    /\ pc \in {"idle", "done", "raised"}
    /\ loads < MaxLoads
    /\ loads' = loads + 1
    /\ cur' = s
    /\ pc' = "connect"
    /\ calls' = <<>>
    /\ raised' = "none"
    /\ rendered' = {"title"}
    /\ structure' = NoStructure
    /\ df_ambulatorial' = <<>>
    /\ df_populacao' = 0
    /\ df_municipio' = 0
    /\ df_economico' = 0
    /\ fig_invest' = <<>>
    /\ investimento_regiao' = <<>>
    /\ dados_uf' = <<>>
    /\ top_estados' = <<>>
    /\ evolucao_anual' = <<>>
    /\ queries' = [f \in LoaderSet |-> 0]
    /\ UNCHANGED <<db, resource_cache, connect_calls, session_engine,
                   data_cache, explore_ok, explore_i>>

\* The element init_connection puts on the page (lines 19, 22).
ConnectionMessage(result) ==
    IF result = "engine" THEN "connection_success" ELSE "connection_exception"

init_connection_retrying(ok) ==
    /\ connect_calls' = IF resource_cache \in {"miss", "None"}
                        THEN connect_calls + 1 ELSE connect_calls
    /\ resource_cache' = IF resource_cache \in {"miss", "None"}
                         THEN (IF ok THEN "engine" ELSE "None")
                         ELSE resource_cache
    /\ rendered' = rendered \cup {ConnectionMessage(resource_cache')}

\* Lines 13-23 under st.cache_resource: the first call connects once and its
\* return value, the engine or None, is memoized; later calls return it.
\* The body puts st.success or st.error on the page, and a cache hit replays
\* the element the memoized call made.
init_connection(ok) ==
    /\ connect_calls' = IF resource_cache = "miss"
                        THEN connect_calls + 1 ELSE connect_calls
    /\ resource_cache' = IF resource_cache = "miss"
                         THEN (IF ok THEN "engine" ELSE "None")
                         ELSE resource_cache
    /\ rendered' = rendered \cup {ConnectionMessage(resource_cache')}

EngineIsSet(e) == e # "unset"

\* Line 118, `if st.session_state.engine:`: an Engine is truthy, None is not.
EngineTruthy(e) == e = "engine"

\* Lines 114-118.
Connect ==
    /\ pc = "connect"
    /\ IF session_engine[cur] = "unset"
       THEN /\ \E ok \in BOOLEAN : init_connection(ok)
            /\ session_engine' = [session_engine EXCEPT ![cur] = resource_cache']
       ELSE UNCHANGED <<resource_cache, connect_calls, session_engine,
                        rendered>>
    /\ pc' = IF EngineTruthy(session_engine'[cur]) THEN "explore" ELSE "no_engine"
    /\ UNCHANGED <<db, data_cache, queries, loads, cur, calls, raised,
                   structure, explore_ok, explore_i, cycle_locals>>

\* Lines 327-328.
NoEngine ==
    /\ pc = "no_engine"
    /\ rendered' = rendered \cup {"connection_error"}
    /\ pc' = "done"
    /\ UNCHANGED <<db, resource_cache, connect_calls, session_engine,
                   data_cache, queries, loads, cur, calls, raised, structure,
                   explore_ok, explore_i, cycle_locals>>

\* Lines 120-122 and the st.cache_data wrapper of line 89: without a click
\* nothing happens; a click on a cached result shows it; a click on a miss
\* enters the body of explore_database_structure.
Explore ==
    /\ pc = "explore"
    /\ \E clicked \in BOOLEAN :
        IF ~clicked
        THEN /\ pc' = "load_ambulatory"
             /\ UNCHANGED <<structure, rendered, explore_i>>
        ELSE IF data_cache["explore_database_structure"].hit
        THEN /\ structure' = data_cache["explore_database_structure"].value
             /\ rendered' = rendered \cup {"structure"}
             /\ pc' = "load_ambulatory"
             /\ UNCHANGED explore_i
        ELSE /\ structure' = NoStructure
             /\ explore_i' = 1
             /\ pc' = "explore_loop"
             /\ UNCHANGED rendered
    /\ UNCHANGED <<db, resource_cache, connect_calls, session_engine,
                   data_cache, queries, loads, cur, calls, raised, explore_ok,
                   cycle_locals>>

\* Lines 96-108 and 123-129: one query of the loop; after the last table the
\* function returns, its result is cached and shown.
ExploreStep ==
    /\ pc = "explore_loop"
    /\ \E ok \in BOOLEAN :
        /\ structure' = ExploreIteration(structure, Tables[explore_i], db, ok)
        /\ explore_ok' = [explore_ok EXCEPT ![Tables[explore_i]] = ok]
    /\ IF explore_i < Len(Tables)
       THEN /\ explore_i' = explore_i + 1
            /\ UNCHANGED <<pc, data_cache, rendered>>
       ELSE /\ explore_i' = 0
            /\ data_cache' = [data_cache EXCEPT
                   !["explore_database_structure"] =
                       [hit |-> TRUE, value |-> structure']]
            /\ rendered' = rendered \cup {"structure"}
            /\ pc' = "load_ambulatory"
    /\ UNCHANGED <<db, resource_cache, connect_calls, session_engine, queries,
                   loads, cur, calls, raised, cycle_locals>>

cached_call_uncached(f, fresh, ok, next) ==
    /\ calls' = Append(calls, f)
    /\ queries' = [queries EXCEPT ![f] = @ + 1]
    /\ IF ok
       THEN /\ data_cache' = [data_cache EXCEPT
                                 ![f] = [hit |-> TRUE, value |-> fresh]]
            /\ pc' = next
            /\ UNCHANGED raised
       ELSE /\ raised' = f
            /\ pc' = "raised"
            /\ UNCHANGED data_cache

cached_call_swallowing(f, fresh, ok, next) ==
    /\ calls' = Append(calls, f)
    /\ IF data_cache[f].hit
       THEN /\ pc' = next
            /\ UNCHANGED <<data_cache, queries, raised>>
       ELSE /\ queries' = [queries EXCEPT ![f] = @ + 1]
            /\ pc' = next
            /\ UNCHANGED raised
            /\ data_cache' = IF ok
                             THEN [data_cache EXCEPT
                                     ![f] = [hit |-> TRUE, value |-> fresh]]
                             ELSE data_cache

\* A call of loader f under st.cache_data (the _engine argument is not part
\* of the key): a hit returns the stored table without running the body; a
\* miss runs pd.read_sql, whose failure leaves main() and stores nothing.
cached_call(f, fresh, ok, next) ==
    /\ calls' = Append(calls, f)
    /\ IF data_cache[f].hit
       THEN /\ pc' = next
            /\ UNCHANGED <<data_cache, queries, raised>>
       ELSE /\ queries' = [queries EXCEPT ![f] = @ + 1]
            /\ IF ok
               THEN /\ data_cache' = [data_cache EXCEPT
                                         ![f] = [hit |-> TRUE, value |-> fresh]]
                    /\ pc' = next
                    /\ UNCHANGED raised
               ELSE /\ raised' = f
                    /\ pc' = "raised"
                    /\ UNCHANGED data_cache

\* What the call leaves in the local: the cached table, or nothing on failure.
Returned(f, unbound) ==
    IF data_cache'[f].hit /\ raised' = "none" THEN data_cache'[f].value
    ELSE unbound

\* Lines 132-133.
LoadAmbulatory ==
    /\ pc = "load_ambulatory"
    /\ \E ok \in BOOLEAN :
        cached_call("load_ambulatory_data", load_ambulatory_data(db), ok,
                    "load_population")
    /\ df_ambulatorial' = Returned("load_ambulatory_data", <<>>)
    /\ UNCHANGED <<db, resource_cache, connect_calls, session_engine, loads,
                   cur, rendered, structure, explore_ok, explore_i, df_populacao, df_municipio,
                   df_economico, aggregates>>

\* Lines 135-136.
LoadPopulation ==
    /\ pc = "load_population"
    /\ \E ok \in BOOLEAN :
        cached_call("load_population_data", load_population_data(db), ok,
                    "load_municipio")
    /\ df_populacao' = Returned("load_population_data", 0)
    /\ UNCHANGED <<db, resource_cache, connect_calls, session_engine, loads,
                   cur, rendered, structure, explore_ok, explore_i, df_ambulatorial, df_municipio,
                   df_economico, aggregates>>

\* Lines 138-139.
LoadMunicipio ==
    /\ pc = "load_municipio"
    /\ \E ok \in BOOLEAN :
        cached_call("load_municipio_data", load_municipio_data(db), ok,
                    "load_economic")
    /\ df_municipio' = Returned("load_municipio_data", 0)
    /\ UNCHANGED <<db, resource_cache, connect_calls, session_engine, loads,
                   cur, rendered, structure, explore_ok, explore_i, df_ambulatorial, df_populacao,
                   df_economico, aggregates>>

\* Lines 141-142.
LoadEconomic ==
    /\ pc = "load_economic"
    /\ \E ok \in BOOLEAN :
        cached_call("load_economic_data", load_economic_data(db), ok,
                    "render")
    /\ df_economico' = Returned("load_economic_data", 0)
    /\ UNCHANGED <<db, resource_cache, connect_calls, session_engine, loads,
                   cur, rendered, structure, explore_ok, explore_i, df_ambulatorial, df_populacao,
                   df_municipio, aggregates>>

AnalysisElements ==
    {"fig_dist", "fig_invest", "fig_proc", "tabela_regiao", "fig_top_estados",
     "tabela_estados", "fig_evol_invest", "fig_evol_proc", "csv"}

\* Lines 164-310 when the ambulatory table has rows: the three analyses and
\* the CSV export.
Analyse ==
    /\ fig_invest' = GroupSummary(df_ambulatorial, "regiao_nome")
    /\ investimento_regiao' = WithRatios(fig_invest')
    /\ dados_uf' = GroupSummary(df_ambulatorial, "uf_sigla")
    /\ top_estados' \in NLargest(TopN, dados_uf')
    /\ evolucao_anual' = YearSummary(df_ambulatorial)
    /\ rendered' = rendered \cup {"metrics", "sobre"} \cup AnalysisElements
    /\ pc' = "done"
    /\ UNCHANGED raised

RenderUnguarded ==
    /\ pc = "render"
    /\ IF df_ambulatorial = <<>>
       THEN /\ raised' = "main"
            /\ pc' = "raised"
            /\ UNCHANGED <<rendered, aggregates>>
       ELSE Analyse
    /\ UNCHANGED <<db, resource_cache, connect_calls, session_engine,
                   data_cache, queries, loads, cur, calls, structure,
                   explore_ok, explore_i, df_ambulatorial, df_populacao, df_municipio,
                   df_economico>>

\* Lines 144-325: the four metrics, then the analyses, each behind
\* `not df_ambulatorial.empty` (lines 164, 269, 302).
Render ==
    /\ pc = "render"
    /\ IF df_ambulatorial = <<>>
       THEN /\ rendered' = rendered \cup {"metrics", "sobre"}
            /\ pc' = "done"
            /\ UNCHANGED <<raised, aggregates>>
       ELSE Analyse
    /\ UNCHANGED <<db, resource_cache, connect_calls, session_engine,
                   data_cache, queries, loads, cur, calls, structure,
                   explore_ok, explore_i, df_ambulatorial, df_populacao, df_municipio,
                   df_economico>>

Next ==
    \/ DbChange
    \/ \E s \in Sessions : StartRun(s)
    \/ Connect
    \/ NoEngine
    \/ Explore
    \/ ExploreStep
    \/ LoadAmbulatory
    \/ LoadPopulation
    \/ LoadMunicipio
    \/ LoadEconomic
    \/ Render

Spec == Init /\ [][Next]_vars

(***************************************************************************)
(* The aggregation layer on its own: main() has loaded an ambulatory table *)
(* drawn from a bounded set and is about to run lines 144-325.             *)
(***************************************************************************)
SampleRows ==
    { ReadRow(AmbRow(1, 1, 11, 2020, 10, 300)),
      ReadRow(AmbRow(2, 1, 12, 2021, 5, 100)),
      ReadRow(AmbRow(NULL, 2, 21, 2020, 3, 1134)),
      ReadRow(AmbRow(3, NULL, 21, 2021, 4, 7000)),
      ReadRow(AmbRow(NULL, 2, NULL, 2021, 0, 0)),
      ReadRow(AmbRow(2, 1, 12, 2021, 1, 200)),
      ReadRow(AmbRow(2, 2, 21, 2020, 2, 1)) }

\* Every table of at most MaxRows sample rows.
SmallTables == UNION {[1..n -> SampleRows] : n \in 0..MaxRows}

StateAmounts == {Float64(1000, 1000), Float64(2000, 1000)}

\* One row per state K, K-1, ..., 1 (so that grouping has to sort), the
\* value of each state drawn from two amounts (so that ties abound); the
\* region names are missing and the years differ.  Few states, or more
\* than the top-10 takes.
StateTables ==
    UNION {{[j \in 1..K |->
                AmbRow(K + 1 - j, NULL, K + 1 - j, YearMin + K - j, 1,
                       f[K + 1 - j])] : f \in [1..K -> StateAmounts]}
           : K \in (0..MaxTied) \cup ((TopN + 1)..MaxStates)}

\* Exactly TopN states, each with an amount of its own but for one pair of
\* neighbours.
TieTables ==
    {[j \in 1..TopN |->
         LET u == TopN + 1 - j
         IN  ReadRow(AmbRow(u, NULL, u, YearMin, 1,
                            1000 * (IF u = a + 1 THEN a ELSE u)))]
     : a \in 1..(TopN - 1)}

InitAgg ==
    /\ df_ambulatorial \in SmallTables \cup StateTables \cup TieTables
    /\ db = [amb |-> <<>>,
             pop |-> [rows |-> 0, recent |-> 0],
             eco |-> [rows |-> 0, recent |-> 0],
             mun |-> [rows |-> 0, recent |-> 0]]
    /\ resource_cache = "engine"
    /\ connect_calls = 1
    /\ session_engine = [s \in Sessions |-> IF s = 1 THEN "engine" ELSE "unset"]
    /\ data_cache = [f \in CachedFunctions |->
                        IF f = "load_ambulatory_data"
                        THEN [hit |-> TRUE, value |-> df_ambulatorial]
                        ELSE IF f \in LoaderSet
                        THEN [hit |-> TRUE, value |-> 0]
                        ELSE Miss]
    /\ queries = [f \in LoaderSet |-> 1]
    /\ loads = 1
    /\ cur = 1
    /\ pc = "render"
    /\ calls = Loaders
    /\ raised = "none"
    /\ rendered = {"title", "connection_success"}
    /\ structure = NoStructure
    /\ explore_ok = [t \in TableSet |-> TRUE]
    /\ explore_i = 0
    /\ df_populacao = 0
    /\ df_municipio = 0
    /\ df_economico = 0
    /\ fig_invest = <<>>
    /\ investimento_regiao = <<>>
    /\ dados_uf = <<>>
    /\ top_estados = <<>>
    /\ evolucao_anual = <<>>

NextAgg == Render

SpecAgg == InitAgg /\ [][NextAgg]_vars

(***************************************************************************)
(* Properties                                                              *)
(***************************************************************************)
Analysed == pc = "done" /\ session_engine[cur] = "engine"

RECURSIVE SeriesSum(_)
\* The float64 sum of a sequence of doubles, added in order.
SeriesSum(vals) ==
    IF vals = <<>> THEN Zero
    ELSE AddFloat(SeriesSum(SubSeq(vals, 1, Len(vals) - 1)), vals[Len(vals)])

\* x and y differ by less than half a thousandth, the unit of the amounts.
SameAmount(x, y) ==
    LET d == SubFloat(x, y)
    IN  LessFloat(IF d.neg THEN Negate(d) ELSE d, Float64(1, 2000))

\* C3 (as claimed).  For every non-empty ambulatory table the sum of
\* investimento_total over the rows of the by-region aggregate equals (up to
\* the error of float64 addition) the sum of vl_total over all records,
\* records without a region name included.
C3_RegionSumsPartition ==
    (Analysed /\ df_ambulatorial # <<>>) =>
        SameAmount(SeriesSum([i \in 1..Len(fig_invest) |->
                                 fig_invest[i].investimento_total]),
                   SeriesSum(Amounts(df_ambulatorial)))

RowSet(frame) == {frame[i] : i \in 1..Len(frame)}

\* Row a comes before row b when dados_uf is stably sorted by descending
\* investimento_total (dados_uf itself is in ascending key order).
Before(a, b) ==
    \/ LessFloat(b.investimento_total, a.investimento_total)
    \/ a.investimento_total = b.investimento_total /\ a.key < b.key

\* C4 (as claimed).  top_estados is the first min(10, number of distinct
\* states) rows of the by-state aggregate stably sorted by descending
\* investimento_total: its rows are rows of dados_uf, it has that length,
\* consecutive rows are in stable descending order (ties in grouping order),
\* and every row left out comes after its last row.
C4_TopStatesStablePrefix ==
    Analysed =>
        /\ Len(dados_uf) = Cardinality(GroupKeys(df_ambulatorial, "uf_sigla"))
        /\ Len(top_estados) = Min(TopN, Len(dados_uf))
        /\ RowSet(top_estados) \subseteq RowSet(dados_uf)
        /\ \A i \in 1..Len(top_estados) : \A j \in 1..Len(top_estados) :
              i < j => Before(top_estados[i], top_estados[j])
        /\ \A r \in RowSet(dados_uf) \ RowSet(top_estados) :
              Before(top_estados[Len(top_estados)], r)

\* C4 (amended).  top_estados holds min(10, number of distinct states)
\* different rows of the by-state aggregate, sorted by descending
\* investimento_total, and no row left out has a larger total than a row
\* kept; when there are more than 10 states, rows of equal total are in
\* grouping order and the cut keeps the first of them.
C4_TopStatesDescending ==
    Analysed =>
        /\ Len(dados_uf) = Cardinality(GroupKeys(df_ambulatorial, "uf_sigla"))
        /\ Len(top_estados) = Min(TopN, Len(dados_uf))
        /\ RowSet(top_estados) \subseteq RowSet(dados_uf)
        /\ Cardinality(RowSet(top_estados)) = Len(top_estados)
        /\ \A i \in 1..Len(top_estados) : \A j \in 1..Len(top_estados) :
              i < j => ~LessFloat(top_estados[i].investimento_total,
                                  top_estados[j].investimento_total)
        /\ \A r \in RowSet(dados_uf) \ RowSet(top_estados) :
              ~LessFloat(top_estados[Len(top_estados)].investimento_total,
                         r.investimento_total)
        /\ Len(dados_uf) > TopN =>
              /\ \A i \in 1..Len(top_estados) : \A j \in 1..Len(top_estados) :
                    i < j => Before(top_estados[i], top_estados[j])
              /\ \A r \in RowSet(dados_uf) \ RowSet(top_estados) :
                    Before(top_estados[Len(top_estados)], r)

\* More than ten states, and a tie in value across the cut after row ten.
C4_Witness ==
    /\ Analysed
    /\ Len(dados_uf) > TopN
    /\ Len(top_estados) = TopN
    /\ \E r \in RowSet(dados_uf) \ RowSet(top_estados) :
          r.investimento_total = top_estados[TopN].investimento_total
    /\ \E i \in 1..(TopN - 1) :
          /\ top_estados[i].investimento_total
                = top_estados[i + 1].investimento_total
          /\ LessFloat(top_estados[TopN].investimento_total,
                       top_estados[i].investimento_total)

\* C5 (as claimed).  A region whose distinct-municipality count is zero gets
\* a missing value (NaN), not an infinite one, in both per-municipality
\* ratios.
C5_ZeroMunicipiosRatioMissing ==
    Analysed =>
        \A i \in 1..Len(investimento_regiao) :
            investimento_regiao[i].municipios = 0 =>
                /\ investimento_regiao[i].investimento_por_municipio.kind = "nan"
                /\ investimento_regiao[i].procedimentos_por_municipio.kind = "nan"

Empty(frames) == \A i \in 1..Len(frames) : frames[i] = <<>>

PageOutputs == {"metrics", "sobre", "structure"} \cup AnalysisElements

\* C1.  In a run whose connection is the memoized failure (None) no loader
\* and no schema introspection is invoked, no table is loaded, no aggregate
\* is computed and nothing but the title and the connection errors (the one
\* of init_connection, the one of main) is put on the page; the run ends
\* with the error shown.
C1_ConnectionFailureHaltsCycle ==
    (pc # "idle" /\ session_engine[cur] = "None") =>
        /\ pc \in {"connect", "no_engine", "done"}
        /\ calls = <<>>
        /\ \A f \in LoaderSet : queries[f] = 0
        /\ structure = NoStructure
        /\ rendered \cap PageOutputs = {}
        /\ rendered \subseteq
              {"title", "connection_exception", "connection_error"}
        /\ df_ambulatorial = <<>> /\ Empty(aggregates)
        /\ raised = "none"
        /\ pc = "done" => "connection_error" \in rendered

\* A run that ended on the failed connection, the error on the page.
C1_Witness ==
    /\ pc = "done"
    /\ session_engine[cur] = "None"
    /\ resource_cache = "None"
    /\ rendered = {"title", "connection_exception", "connection_error"}

\* C2.  At most one connection attempt is made in the process: the result of
\* the first call of init_connection, engine or None, is what every session
\* that has asked for it holds.
C2_SingleConnectionAttempt ==
    /\ connect_calls <= 1
    /\ (connect_calls = 0) <=> (resource_cache = "miss")
    /\ \A s \in Sessions :
          session_engine[s] # "unset" => session_engine[s] = resource_cache

\* Two sessions have loaded the page; the single attempt failed and its
\* failure is what both hold.
C2_Witness ==
    /\ loads >= 2
    /\ connect_calls = 1
    /\ resource_cache = "None"
    /\ Cardinality({s \in Sessions : session_engine[s] = "None"}) >= 2

\* C6.  When the loaded ambulatory table is empty and no loader failed, the
\* run ends without an exception and every aggregate (by region, by state,
\* top states, by year) holds no row.
C6_EmptyTableEmptyAggregates ==
    (/\ pc \in {"done", "raised"}
     /\ session_engine[cur] = "engine"
     /\ raised \notin LoaderSet
     /\ df_ambulatorial = <<>>) =>
        /\ pc = "done"
        /\ raised = "none"
        /\ Empty(aggregates)

\* A run over an empty ambulatory table that reached its end.
C6_Witness ==
    /\ pc = "done"
    /\ session_engine[cur] = "engine"
    /\ data_cache["load_ambulatory_data"].hit
    /\ df_ambulatorial = <<>>
    /\ "metrics" \in rendered
    /\ Empty(aggregates)

\* C7.  The result of explore_database_structure has an entry for each of
\* the four tables whatever queries failed: the error alone for a table
\* whose query failed, the column list (and sample) of the table for one
\* whose query succeeded.
C7_ExploreIsolatesFailures ==
    data_cache["explore_database_structure"].hit =>
        LET info == data_cache["explore_database_structure"].value
        IN  /\ DOMAIN info = TableSet
            /\ \A t \in TableSet :
                  IF explore_ok[t]
                  THEN /\ DOMAIN info[t] = {"columns", "sample_data"}
                       /\ info[t].columns = TableColumns[t]
                  ELSE DOMAIN info[t] = {"error"}
            /\ "structure" \in rendered => structure = info

\* The first and the third query failed, the second and fourth succeeded.
C7_Witness ==
    /\ data_cache["explore_database_structure"].hit
    /\ "structure" \in rendered
    /\ {t \in TableSet : ~explore_ok[t]} = {Tables[1], Tables[3]}
    /\ DOMAIN structure[Tables[4]] = {"columns", "sample_data"}

OnlyCap(f) == ~Query[f].where_year /\ Query[f].limit # NoLimit

FilterAndCap(f) == Query[f].where_year /\ Query[f].limit # NoLimit

\* C8 (as claimed).  Exactly one loader applies only a row cap, exactly two
\* apply a year filter and a row cap, exactly one applies no filter; the
\* ambulatory and the economic loader are the two with filter and cap.
C8_AsClaimed ==
    (pc = "render" /\ \A f \in LoaderSet : queries[f] = 1) =>
        /\ Cardinality({f \in LoaderSet : OnlyCap(f)}) = 1
        /\ Cardinality({f \in LoaderSet : FilterAndCap(f)}) = 2
        /\ Cardinality({f \in LoaderSet :
                ~Query[f].where_year /\ Query[f].limit = NoLimit}) = 1
        /\ FilterAndCap("load_ambulatory_data")
        /\ FilterAndCap("load_economic_data")
        /\ df_economico <= LimitEconomic

Fetched(f) == queries'[f] > queries[f] /\ raised' = "none"

\* C8 (amended).  Two loaders apply only a row cap (population 100000,
\* municipality 5000), one applies the year filter and a row cap (economic,
\* 50000), one applies the year filter and no cap (ambulatory); whenever a
\* loader fetches, the ambulatory table is exactly the rows of year >= 2020,
\* the economic table the rows of year >= 2020 cut to its cap, the population
\* and municipality tables all rows cut to their caps.
C8_FiltersAndCaps ==
    [][/\ {f \in LoaderSet : OnlyCap(f)}
            = {"load_population_data", "load_municipio_data"}
       /\ {f \in LoaderSet : FilterAndCap(f)} = {"load_economic_data"}
       /\ Fetched("load_ambulatory_data") =>
            /\ \A i \in 1..Len(df_ambulatorial') :
                  df_ambulatorial'[i].ano_producao_ambulatorial >= YearMin
            /\ Len(df_ambulatorial')
                  = Cardinality({i \in 1..Len(db.amb) :
                        db.amb[i].ano_producao_ambulatorial >= YearMin})
       /\ Fetched("load_population_data") =>
            df_populacao' = Min(db.pop.rows, LimitPopulation)
       /\ Fetched("load_municipio_data") =>
            df_municipio' = Min(db.mun.rows, LimitMunicipio)
       /\ Fetched("load_economic_data") =>
            df_economico' = Min(db.eco.recent, LimitEconomic)
      ]_vars

\* All four tables fetched in one run from a database where the filter drops
\* rows and every cap cuts.
C8_Witness ==
    /\ pc = "render"
    /\ \A f \in LoaderSet : queries[f] = 1
    /\ db = Snapshots[2]
    /\ Len(df_ambulatorial) = 3 /\ Len(db.amb) = 4
    /\ df_populacao = LimitPopulation /\ db.pop.rows > LimitPopulation
    /\ df_municipio = LimitMunicipio /\ db.mun.rows > LimitMunicipio
    /\ df_economico = LimitEconomic /\ db.eco.recent > LimitEconomic

IsPrefix(s, t) == Len(s) <= Len(t) /\ s = SubSeq(t, 1, Len(s))

\* C9.  With a live connection the loaders are invoked in the order
\* ambulatory, population, municipality, economic; a loader whose query
\* fails is the last one invoked in the run, it issued one query, nothing is
\* computed or shown after it, and the run gets to the metrics and
\* aggregates only when all four loaders returned their table.
C9_LoaderFailurePropagates ==
    /\ IsPrefix(calls, Loaders)
    /\ \A f \in LoaderSet : queries[f] <= 1
    /\ pc = "raised" =>
          /\ calls # <<>>
          /\ raised = calls[Len(calls)]
          /\ queries[raised] = 1
          /\ ~data_cache[raised].hit
          /\ Empty(aggregates)
          /\ rendered \cap ({"metrics", "sobre"} \cup AnalysisElements) = {}
    /\ (pc \in {"render", "done"} /\ session_engine[cur] = "engine") =>
          /\ calls = Loaders
          /\ raised = "none"
          /\ \A f \in LoaderSet : data_cache[f].hit

\* The population query failed after the ambulatory table was loaded.
C9_Witness ==
    /\ pc = "raised"
    /\ raised = "load_population_data"
    /\ calls = SubSeq(Loaders, 1, 2)
    /\ df_ambulatorial # <<>>
    /\ df_municipio = 0 /\ df_economico = 0

Local(f) ==
    CASE f = "load_ambulatory_data" -> [t |-> df_ambulatorial]
      [] f = "load_population_data" -> [t |-> df_populacao]
      [] f = "load_municipio_data" -> [t |-> df_municipio]
      [] OTHER -> [t |-> df_economico]

\* C10.  Once a loader has succeeded no step issues its query again or
\* changes its cached table, and every call that returns hands main() the
\* cached table.
C10_LoaderQueriesOnce ==
    [][\A f \in LoaderSet :
          /\ data_cache[f].hit =>
                /\ queries'[f] <= queries[f]
                /\ data_cache'[f] = data_cache[f]
          /\ (/\ Len(calls') > Len(calls)
              /\ calls'[Len(calls')] = f
              /\ raised' = "none") =>
                /\ data_cache'[f].hit
                /\ Local(f)' = [t |-> data_cache'[f].value]
      ]_vars

\* A later run was served the cached ambulatory table without a query,
\* although the database no longer holds it.
C10_Witness ==
    /\ loads >= 2
    /\ pc = "load_population"
    /\ queries["load_ambulatory_data"] = 0
    /\ data_cache["load_ambulatory_data"].hit
    /\ df_ambulatorial = data_cache["load_ambulatory_data"].value
    /\ df_ambulatorial # load_ambulatory_data(db)

====
